---- MODULE Spec2Model ----
(***************************************************************************)
(* State-machine model of TelemetryGenerator (src/telemetry-generator.py)  *)
(* and of the dashboard sessions that share it (src/app.py).               *)
(*                                                                         *)
(* Numbers.  Python floats are modelled as exact fixed-point integers:     *)
(*   time                 whole seconds                                    *)
(*   throttle_position    1/10000                 (E4)                     *)
(*   temperatures         1/180000 degree C       (Deg)                    *)
(*   pressures            1/18000                 (Milli: 1/1000 -> unit)  *)
(*   soc                  1/6000000 percent       (Pct)                    *)
(*   power_kw             1/10000 kW                                       *)
(*   rpm (before int())   1/100 rpm;  speed (before int()) 1/5000 km/h     *)
(* The units are the least ones in which every product and quotient the    *)
(* code forms on the sampled inputs is an integer, so no rounding is       *)
(* introduced by the model.  np.sin is the one approximated function.      *)
(*                                                                         *)
(* The clock is read several times inside one call; the model takes those  *)
(* reads to return the same second.                                        *)
(***************************************************************************)
EXTENDS Integers, Sequences, FiniteSets, TLC

VARIABLES
    now,                \* the wall clock, time.time()
    start_time,         \* self.start_time
    lap_start_time,     \* self.lap_start_time
    current_lap,        \* self.current_lap
    best_lap_time,      \* self.best_lap_time (None or seconds)
    previous_lap_time,  \* self.previous_lap_time (None or seconds)
    throttle_position,  \* self.throttle_position
    brake_position,     \* self.brake_position
    snapshot,           \* <<the dict last returned by get_all_telemetry>>, <<>> before
    ind,                \* <<locals of the last generate_status_indicators run>>
    laps,               \* history: durations of the laps completed so far
    threshold,          \* history: random.uniform(90, 120) of the last call
    boundaries,         \* history: current_time of every current_lap += 1
    cache,              \* what st.cache_resource holds for get_telemetry_generator
    telemetry_gen,      \* st.session_state.telemetry_gen of every session
    pc,                 \* where every session's script run stands
    frame,              \* the locals of every session's script run
    overlapped          \* history: two calls were in flight at the same time

\* The dashboard process around the generator (src/app.py).
host == <<cache, telemetry_gen, pc, frame, overlapped>>

vars == <<now, start_time, lap_start_time, current_lap, best_lap_time,
          previous_lap_time, throttle_position, brake_position, snapshot,
          ind, laps, threshold, boundaries, cache, telemetry_gen, pc, frame,
          overlapped>>

\* Python's None where a number of seconds is expected
None == -1

\* The dashboard sessions (browser tabs) the model follows; every session's
\* script runs in a thread of its own.
Sessions == {"s1", "s2"}

\* The one TelemetryGenerator object a process can hold: st.cache_resource
\* builds it on the first get_telemetry_generator() and hands the same object
\* to every later caller.
Generator == 1

\* No dashboard session has run yet.
InitHost ==
    /\ cache = None
    /\ telemetry_gen = [s \in Sessions |-> None]
    /\ pc = [s \in Sessions |-> "idle"]
    /\ frame = [s \in Sessions |-> <<>>]

\* ---------------------------------------------------------------- bounds
\* Spec: the clock advances in ticks of TickStep seconds, MaxTicks times.
TickStep == 30
MaxTicks == 9
\* SpecLong: the generator is left idle IdleStep seconds at a time (past the
\* caps of both ramps and, in two or three stretches, down to the soc
\* thresholds); the three stretches end near the top, the middle and the
\* bottom of the throttle pattern.
IdleStep == 2403
MaxIdles == 3
\* SpecRamp: a generator is first queried up to MaxElapsed seconds after its
\* construction (two hours: past the caps of both ramps).
MaxElapsed == 7200
\* SpecShared: between script runs the clock moves on PauseStep seconds,
\* MaxPauses times.
PauseStep == 50
MaxPauses == 4

\* ----------------------------------------------------------------- units
Deg(x)   == x * 180000
Milli(x) == x * 18
Pct(x)   == x * 6000000
E4(tenths) == tenths * 1000

Max2(a, b) == IF a > b THEN a ELSE b
Min2(a, b) == IF a < b THEN a ELSE b

\* max(lo, min(hi, x))
Clamp(lo, hi, x) == Max2(lo, Min2(hi, x))

\* ------------------------------------------------ __init__ base values
base_rpm == 8000
base_tire_temp == 85
base_tire_pressure == Milli(2300)
base_battery_temp == 45
base_motor_temp == 75
base_soc == 85

Positions == <<"FL", "FR", "RL", "RR">>
Corners == {"FL", "FR", "RL", "RR"}
Front == {"FL", "FR"}

\* ------------------------------------------------------------- np.sin
\* sin of x in units of 1/1000 (result in 1/1000), x given in 1/100000 rad.
\* Range reduction modulo 2*pi = 6.28319, then Bhaskara's approximation
\* 16 x (pi - x) / (5 pi^2 - 4 x (pi - x)) on the half period, x in 1/100 rad.
HalfSin(x) == (16000 * x * (314 - x)) \div (492980 - 4 * x * (314 - x))

Sin(phase) ==
    LET x == (phase % 628319) \div 1000
    IN  IF x <= 314 THEN HalfSin(x) ELSE -HalfSin(Min2(x - 314, 314))

\* --------------------------------------------------- generate_tire_data
\* Mutant of wear_factor: the cap min(., 0.3) is left out.
wear_factor_NoCap(elapsed) == elapsed

\* min(elapsed / 3600, 0.3), in units of 1/3600
wear_factor(elapsed) == Min2(elapsed, 1080)

\* One corner of generate_tire_data. c holds the corner's random.uniform
\* results: temp, pressure, and the two conditional heat draws.
TireCorner(elapsed, throttle, brake, c) ==
    LET t0 == Deg(base_tire_temp) + c.temp + wear_factor(elapsed) * 1000
        t1 == IF throttle > E4(7) THEN t0 + c.throttle_heat ELSE t0
        temperature == IF brake > E4(5) THEN t1 + c.brake_heat ELSE t1
        pressure == base_tire_pressure + c.pressure - wear_factor(elapsed)
    IN  [temperature |-> Clamp(Deg(20), Deg(120), temperature),
         pressure    |-> Clamp(Milli(1800), Milli(2800), pressure)]

\* tn: the draws of one run, a function of the corner.
generate_tire_data(elapsed, throttle, brake, tn) ==
    [p \in Corners |-> TireCorner(elapsed, throttle, brake, tn[p])]

\* ------------------------------------------------- generate_engine_data
\* np.sin((current_time - start_time) * 0.5) * 0.3 + 0.7
Pattern(elapsed) == 3 * Sin(50000 * elapsed) + E4(7)

NextThrottle(elapsed, noise) == Clamp(E4(2), E4(10), Pattern(elapsed) + noise)

\* rpm in 1/100 after noise and clamping; gear_factor in tenths.
EngineRpm(throttle, gear_factor, noise) ==
    Clamp(1000 * 100, 12000 * 100,
          (base_rpm * throttle * gear_factor) \div 1000 + noise * 100)

\* speed in 1/5000: (rpm / 11000) * 220 = rpm / 50, plus noise, clamped.
EngineSpeed(rpm, noise) == Clamp(0, 250 * 5000, rpm + noise * 5000)

generate_engine_data(throttle, en) ==
    LET rpm == EngineRpm(throttle, en.gear, en.rpm)
        speed == EngineSpeed(rpm, en.speed)
    IN  [rpm |-> rpm \div 100, speed |-> speed \div 5000,
         throttle_position |-> throttle]

\* ------------------------------------------------ generate_thermal_data
\* Mutant of thermal_buildup: the cap min(., 0.4) is left out.
thermal_buildup_NoCap(elapsed) == elapsed

\* min(elapsed / 1800, 0.4), in units of 1/1800
thermal_buildup(elapsed) == Min2(elapsed, 720)

BatteryTemp(elapsed, throttle, noise) ==
    Clamp(Deg(20), Deg(80),
          Deg(base_battery_temp) + thermal_buildup(elapsed) * 2500
              + throttle * 90 + noise)

MotorTemp(elapsed, throttle, noise) ==
    Clamp(Deg(25), Deg(110),
          Deg(base_motor_temp) + thermal_buildup(elapsed) * 3500
              + throttle * 189 + noise)

generate_thermal_data(elapsed, throttle, hn) ==
    [battery_temp |-> BatteryTemp(elapsed, throttle, hn.battery),
     motor_temp   |-> MotorTemp(elapsed, throttle, hn.motor)]

\* -------------------------------------------------- generate_power_data
\* throttle * 0.8 + 0.2, in units of 1/100000
consumption_rate(throttle) == throttle * 8 + 20000

\* Mutant of CurrentSoc: the floor max(5, .) is left out.
CurrentSoc_NoFloor(elapsed, throttle) ==
    Pct(base_soc) - elapsed * consumption_rate(throttle)

\* max(5, base_soc - (elapsed / 60) * (consumption_rate / 100) * 100)
CurrentSoc(elapsed, throttle) ==
    Max2(Pct(5), Pct(base_soc) - elapsed * consumption_rate(throttle))

\* -(throttle * 45 + random.uniform(5, 15)), in 1/10000 kW
PowerConsumption(throttle, noise) == -(throttle * 45 + noise)

generate_power_data(elapsed, throttle, noise) ==
    [soc |-> CurrentSoc(elapsed, throttle),
     power_kw |-> PowerConsumption(throttle, noise)]

\* -------------------------------------------- generate_status_indicators
Yellow(s) == [color |-> "yellow", status |-> s]
Red(s)    == [color |-> "red", status |-> s]
SystemOK  == [color |-> "green", status |-> "System OK"]

When(c, entry) == IF c THEN <<entry>> ELSE <<>>

ThermalWarnings(thermal_data) ==
    When(thermal_data.battery_temp > Deg(60), Yellow("Battery Temp Warning"))
    \o When(thermal_data.battery_temp > Deg(70), Red("Battery Overtemp"))
    \o When(thermal_data.motor_temp > Deg(90), Yellow("Motor Temp Warning"))
    \o When(thermal_data.motor_temp > Deg(100), Red("Motor Overtemp"))

LowPressure == [p \in Corners |-> p \o " Low Pressure"]
Overheated  == [p \in Corners |-> p \o " Overheated"]

CornerWarnings(pos, data) ==
    When(data.pressure < Milli(2000), Yellow(LowPressure[pos]))
    \o When(data.temperature > Deg(100), Red(Overheated[pos]))

\* Mutant of TireWarnings: the loop over the corners runs twice.
TireWarnings_Twice(tire_data) ==
    CornerWarnings(Positions[1], tire_data[Positions[1]])
    \o CornerWarnings(Positions[2], tire_data[Positions[2]])
    \o CornerWarnings(Positions[3], tire_data[Positions[3]])
    \o CornerWarnings(Positions[4], tire_data[Positions[4]])
    \o CornerWarnings(Positions[1], tire_data[Positions[1]])
    \o CornerWarnings(Positions[2], tire_data[Positions[2]])
    \o CornerWarnings(Positions[3], tire_data[Positions[3]])
    \o CornerWarnings(Positions[4], tire_data[Positions[4]])

\* for pos, data in tire_data.items(): the dict's insertion order
TireWarnings(tire_data) ==
    CornerWarnings(Positions[1], tire_data[Positions[1]])
    \o CornerWarnings(Positions[2], tire_data[Positions[2]])
    \o CornerWarnings(Positions[3], tire_data[Positions[3]])
    \o CornerWarnings(Positions[4], tire_data[Positions[4]])

PowerWarnings(power_data) ==
    When(power_data.soc < Pct(20), Yellow("Low Battery"))
    \o When(power_data.soc < Pct(10), Red("Critical Battery"))

\* Mutant of Warnings: the power warnings are generated first.
Warnings_PowerFirst(thermal_data, tire_data, power_data) ==
    PowerWarnings(power_data) \o ThermalWarnings(thermal_data)
    \o TireWarnings(tire_data)

Warnings(thermal_data, tire_data, power_data) ==
    ThermalWarnings(thermal_data) \o TireWarnings(tire_data)
    \o PowerWarnings(power_data)

\* Mutant of FillUp: an if where the code has a while.
FillUp_Once(indicators) ==
    IF Len(indicators) < 20 THEN Append(indicators, SystemOK) ELSE indicators

\* while len(indicators) < 20: indicators.append(System OK)
RECURSIVE FillUp(_)
FillUp(indicators) ==
    IF Len(indicators) < 20 THEN FillUp(Append(indicators, SystemOK))
    ELSE indicators

\* indicators[:20]
First20(indicators) == SubSeq(indicators, 1, Min2(20, Len(indicators)))

\* generate_status_indicators on the data its three generator runs gave it:
\* its locals when it returns, and what it returns.
generate_status_indicators(thermal_data, tire_data, power_data) ==
    LET indicators == FillUp(Warnings(thermal_data, tire_data, power_data))
    IN  [thermal_data |-> thermal_data, tire_data |-> tire_data,
         power_data |-> power_data, indicators |-> indicators,
         returned |-> First20(indicators)]

\* --------------------------------------------------- generate_lap_times
\* Mutant of LapComplete: >= where the code has >.
LapComplete_AtLeast(current_lap_time, drawn) == current_lap_time >= drawn

\* if current_lap_time > random.uniform(90, 120)
LapComplete(current_lap_time, drawn) == current_lap_time > drawn

\* Mutant of BestAfter: the latest lap always becomes the best.
BestAfter_Latest(best, current_lap_time) == current_lap_time

\* if self.best_lap_time is None or current_lap_time < self.best_lap_time
BestAfter(best, current_lap_time) ==
    IF best = None \/ current_lap_time < best THEN current_lap_time ELSE best

\* Mutant of CompletedLap: the lap counter is not advanced.
CompletedLap_NoIncrement(self, current_time, current_lap_time) ==
    [previous_lap_time |-> current_lap_time,
     best_lap_time |-> BestAfter(self.best_lap_time, current_lap_time),
     lap_start_time |-> current_time,
     current_lap |-> self.current_lap]

\* The body of the if: the four lap fields after a completed lap.
CompletedLap(self, current_time, current_lap_time) ==
    [previous_lap_time |-> current_lap_time,
     best_lap_time |-> BestAfter(self.best_lap_time, current_lap_time),
     lap_start_time |-> current_time,
     current_lap |-> self.current_lap + 1]

\* Mutant of generate_lap_times: previous_lap_time is stored on every call.
generate_lap_times_AlwaysPrevious(self, current_time, drawn) ==
    LET current_lap_time == current_time - self.lap_start_time
        completed == LapComplete(current_lap_time, drawn)
        after == IF completed
                 THEN CompletedLap(self, current_time, current_lap_time)
                 ELSE [self EXCEPT !.previous_lap_time = current_lap_time]
    IN  [self |-> after,
         completed |-> completed,
         lap_times |-> [current_lap_time |-> current_lap_time,
                        best_lap_time |-> after.best_lap_time,
                        previous_lap_time |-> after.previous_lap_time,
                        current_lap |-> after.current_lap]]

\* Mutant of generate_lap_times: the dict reports the lap time measured from
\* the lap start as the call leaves it.
generate_lap_times_ReportReset(self, current_time, drawn) ==
    LET current_lap_time == current_time - self.lap_start_time
        completed == LapComplete(current_lap_time, drawn)
        after == IF completed
                 THEN CompletedLap(self, current_time, current_lap_time)
                 ELSE self
    IN  [self |-> after,
         completed |-> completed,
         lap_times |-> [current_lap_time |-> current_time - after.lap_start_time,
                        best_lap_time |-> after.best_lap_time,
                        previous_lap_time |-> after.previous_lap_time,
                        current_lap |-> after.current_lap]]

\* self: the four lap fields.  Returns them after the call, whether the lap
\* was completed, and the dict returned.
generate_lap_times(self, current_time, drawn) ==
    LET current_lap_time == current_time - self.lap_start_time
        completed == LapComplete(current_lap_time, drawn)
        after == IF completed
                 THEN CompletedLap(self, current_time, current_lap_time)
                 ELSE self
    IN  [self |-> after,
         completed |-> completed,
         lap_times |-> [current_lap_time |-> current_lap_time,
                        best_lap_time |-> after.best_lap_time,
                        previous_lap_time |-> after.previous_lap_time,
                        current_lap |-> after.current_lap]]

\* ------------------------------------------------------ random draws
\* Each random.uniform is sampled at the ends of its interval (the throttle
\* noise also at 0, the noise-free pattern); random.choice over its list.
LapThresholds == {90, 120}
ThrottleNoise == {-E4(2), 0, E4(2)}
Gears == 6..11
RpmNoise == {-200, 200}
SpeedNoise == {-5, 5}
BatteryNoise == {Deg(-2), Deg(3)}
MotorNoise == {Deg(-3), Deg(5)}
PowerNoise == {5 * 10000, 15 * 10000}
TempVariation(p) == IF p \in Front THEN {Deg(-5), Deg(15)} ELSE {Deg(-3), Deg(10)}
PressureVariation(p) ==
    IF p \in Front THEN {Milli(-100), Milli(50)} ELSE {Milli(-50), Milli(30)}
ThrottleHeat == {Deg(2), Deg(8)}
BrakeHeat == {Deg(3), Deg(10)}

Lo(S) == CHOOSE x \in S : \A y \in S : x <= y
Hi(S) == CHOOSE x \in S : \A y \in S : x >= y

\* The draws of one generate_tire_data run: the corners in H draw the high
\* temperature; pressures and heat bonuses are all low or all high.
TireDraw(H, pressureHigh, heatHigh) ==
    [p \in Corners |->
        [temp |-> IF p \in H THEN Hi(TempVariation(p)) ELSE Lo(TempVariation(p)),
         pressure |-> IF pressureHigh THEN Hi(PressureVariation(p))
                      ELSE Lo(PressureVariation(p)),
         throttle_heat |-> IF heatHigh THEN Hi(ThrottleHeat) ELSE Lo(ThrottleHeat),
         brake_heat |-> IF heatHigh THEN Hi(BrakeHeat) ELSE Lo(BrakeHeat)]]

HotCorners == {{}, Corners} \cup {{p} : p \in Corners}

TireDraws ==
    {TireDraw(H, FALSE, FALSE) : H \in HotCorners}
    \cup {TireDraw({}, TRUE, FALSE), TireDraw({}, FALSE, TRUE)}

LowEngine == [gear |-> Lo(Gears), rpm |-> Lo(RpmNoise), speed |-> Lo(SpeedNoise)]

EngineDraws ==
    {[LowEngine EXCEPT !.gear = g] : g \in Gears}
    \cup {[LowEngine EXCEPT !.rpm = v] : v \in RpmNoise}
    \cup {[LowEngine EXCEPT !.speed = v] : v \in SpeedNoise}

LowThermal == [battery |-> Lo(BatteryNoise), motor |-> Lo(MotorNoise)]

ThermalDraws ==
    {[LowThermal EXCEPT !.battery = v] : v \in BatteryNoise}
    \cup {[LowThermal EXCEPT !.motor = v] : v \in MotorNoise}

\* Every draw at its low end.
BaseDraw ==
    [lap |-> Lo(LapThresholds), throttle |-> Lo(ThrottleNoise),
     engine |-> LowEngine, thermal |-> LowThermal,
     tires |-> TireDraw({}, FALSE, FALSE), power |-> Lo(PowerNoise),
     ind_thermal |-> LowThermal, ind_tires |-> TireDraw({}, FALSE, FALSE),
     ind_power |-> Lo(PowerNoise)]

HighEngine == [gear |-> Hi(Gears), rpm |-> Hi(RpmNoise), speed |-> Hi(SpeedNoise)]

HighThermal == [battery |-> Hi(BatteryNoise), motor |-> Hi(MotorNoise)]

\* Every draw at its high end.
HighDraw ==
    [lap |-> Hi(LapThresholds), throttle |-> Hi(ThrottleNoise),
     engine |-> HighEngine, thermal |-> HighThermal,
     tires |-> TireDraw(Corners, TRUE, TRUE), power |-> Hi(PowerNoise),
     ind_thermal |-> HighThermal, ind_tires |-> TireDraw(Corners, TRUE, TRUE),
     ind_power |-> Hi(PowerNoise)]

\* The sampled draws of one get_all_telemetry call: one draw at a time
\* departs from BaseDraw (for the tire temperatures: one corner, or all),
\* or every draw is at its high end.
Draws ==
    {HighDraw} \cup
    {[BaseDraw EXCEPT !.lap = v] : v \in LapThresholds}
    \cup {[BaseDraw EXCEPT !.throttle = v] : v \in ThrottleNoise}
    \cup {[BaseDraw EXCEPT !.engine = v] : v \in EngineDraws}
    \cup {[BaseDraw EXCEPT !.thermal = v] : v \in ThermalDraws}
    \cup {[BaseDraw EXCEPT !.tires = v] : v \in TireDraws}
    \cup {[BaseDraw EXCEPT !.power = v] : v \in PowerNoise}
    \cup {[BaseDraw EXCEPT !.ind_thermal = v] : v \in ThermalDraws}
    \cup {[BaseDraw EXCEPT !.ind_tires = v] : v \in TireDraws}

\* ---------------------------------------------------------------- state
\* Mutant of Init: previous_lap_time starts at 0 instead of None.
Init_PreviousZero ==
    /\ now = 0
    /\ start_time = now
    /\ lap_start_time = now
    /\ current_lap = 1
    /\ best_lap_time = None
    /\ previous_lap_time = 0
    /\ throttle_position = E4(5)
    /\ brake_position = 0
    /\ snapshot = <<>>
    /\ ind = <<>>
    /\ laps = <<>>
    /\ threshold = None
    /\ boundaries = <<>>
    /\ InitHost
    /\ overlapped = FALSE

Init ==
    /\ now = 0
    /\ start_time = now
    /\ lap_start_time = now
    /\ current_lap = 1
    /\ best_lap_time = None
    /\ previous_lap_time = None
    /\ throttle_position = E4(5)
    /\ brake_position = 0
    /\ snapshot = <<>>
    /\ ind = <<>>
    /\ laps = <<>>
    /\ threshold = None
    /\ boundaries = <<>>
    /\ InitHost
    /\ overlapped = FALSE

Self ==
    [previous_lap_time |-> previous_lap_time, best_lap_time |-> best_lap_time,
     lap_start_time |-> lap_start_time, current_lap |-> current_lap]

\* Mutant of Computed: the tires are generated after the engine group, with
\* the throttle this call has set.
Computed_TiresAfterEngine(d, elapsed, throttle) ==
        [tires |-> generate_tire_data(elapsed, throttle,
                                      brake_position, d.tires),
         throttle |-> throttle,
         engine |-> generate_engine_data(throttle, d.engine),
         thermal |-> generate_thermal_data(elapsed, throttle, d.thermal),
         power |-> generate_power_data(elapsed, throttle, d.power),
         lap |-> generate_lap_times(Self, now, d.lap),
         status |-> generate_status_indicators(
             generate_thermal_data(elapsed, throttle, d.ind_thermal),
             generate_tire_data(elapsed, throttle, brake_position, d.ind_tires),
             generate_power_data(elapsed, throttle, d.ind_power))]

\* What one get_all_telemetry call computes with the draws d once
\* generate_engine_data has set the throttle, in the order the code computes
\* it.  The tires are generated with the throttle left by
\* the previous call; generate_status_indicators runs the thermal, tire and
\* power generators again, with draws of its own.
Computed(d, elapsed, throttle) ==
        [tires |-> generate_tire_data(elapsed, throttle_position,
                                      brake_position, d.tires),
         throttle |-> throttle,
         engine |-> generate_engine_data(throttle, d.engine),
         thermal |-> generate_thermal_data(elapsed, throttle, d.thermal),
         power |-> generate_power_data(elapsed, throttle, d.power),
         lap |-> generate_lap_times(Self, now, d.lap),
         status |-> generate_status_indicators(
             generate_thermal_data(elapsed, throttle, d.ind_thermal),
             generate_tire_data(elapsed, throttle, brake_position, d.ind_tires),
             generate_power_data(elapsed, throttle, d.ind_power))]

\* The dict get_all_telemetry returns.
Telemetry(c) ==
    [tires |-> c.tires, engine |-> c.engine, thermal |-> c.thermal,
     power |-> c.power, lap_times |-> c.lap.lap_times,
     status_indicators |-> c.status.returned,
     timestamp |-> now]

Call(d) ==
    \E throttle \in {NextThrottle(now - start_time, d.throttle)} :
    \E c \in {Computed(d, now - start_time, throttle)} :
        /\ throttle_position' = c.throttle
        /\ previous_lap_time' = c.lap.self.previous_lap_time
        /\ best_lap_time' = c.lap.self.best_lap_time
        /\ lap_start_time' = c.lap.self.lap_start_time
        /\ current_lap' = c.lap.self.current_lap
        /\ laps' = IF c.lap.completed THEN Append(laps, now - lap_start_time)
                   ELSE laps
        /\ boundaries' = IF c.lap.completed THEN Append(boundaries, now)
                         ELSE boundaries
        /\ threshold' = d.lap
        /\ ind' = <<c.status>>
        /\ snapshot' = <<Telemetry(c)>>
        /\ UNCHANGED <<now, start_time, brake_position>>
        /\ UNCHANGED host

GetAllTelemetry == \E d \in Draws : Call(d)

\* The clock moves on between two calls.
Tick ==
    /\ now < MaxTicks * TickStep
    /\ now' = now + TickStep
    /\ UNCHANGED <<start_time, lap_start_time, current_lap, best_lap_time,
                   previous_lap_time, throttle_position, brake_position,
                   snapshot, ind, laps, threshold, boundaries>>
    /\ UNCHANGED host

\* The generator is left alone for a long stretch.
Idle ==
    /\ now < MaxIdles * IdleStep
    /\ now' = now + IdleStep
    /\ UNCHANGED <<start_time, lap_start_time, current_lap, best_lap_time,
                   previous_lap_time, throttle_position, brake_position,
                   snapshot, ind, laps, threshold, boundaries>>
    /\ UNCHANGED host

Next == Tick \/ GetAllTelemetry

Spec == Init /\ [][Next]_vars

NextLong == Idle \/ GetAllTelemetry

SpecLong == Init /\ [][NextLong]_vars

\* ------------------------------------- the indicator rules on their own
\* generate_status_indicators as a function of the data it reads.  The data
\* are drawn from the clamping ranges of the generators, on both sides of
\* every threshold; one behaviour applies the rules once.
BatteryTemps == {Deg(60), Deg(61), Deg(71)}
MotorTemps == {Deg(90), Deg(91), Deg(101)}
TireTemps == {Deg(100), Deg(101)}
TirePressures == {Milli(1999), Milli(2000)}
Socs == {Pct(20), Pct(19), Pct(9)}

ThermalData == [battery_temp : BatteryTemps, motor_temp : MotorTemps]
TireData == [Corners -> [temperature : TireTemps, pressure : TirePressures]]
PowerData == [soc : Socs, power_kw : {PowerConsumption(E4(5), Lo(PowerNoise))}]

StatusIndicatorsOf ==
    /\ ind = <<>>
    /\ \E thermal_data \in ThermalData, tire_data \in TireData, power_data \in PowerData :
        /\ ind' = <<generate_status_indicators(thermal_data, tire_data, power_data)>>
        /\ UNCHANGED <<now, start_time, lap_start_time, current_lap, best_lap_time,
                       previous_lap_time, throttle_position, brake_position,
                       snapshot, laps, threshold, boundaries>>
        /\ UNCHANGED host

NextInd == StatusIndicatorsOf

SpecInd == Init /\ [][NextInd]_vars

\* ------------------------------- create_tire_status_display (src/app.py)
\* format(x, '.Nf') of x = n / unit: the nearest multiple of 1/scale, ties to
\* the even one.
RoundTo(n, unit, scale) ==
    LET q == (n * scale) \div unit
        r == (n * scale) % unit
    IN  IF 2 * r < unit \/ (2 * r = unit /\ q % 2 = 0) THEN q ELSE q + 1

\* The text nodes of one tire-indicator block: the heading, f"{temp:.0f}°C"
\* and f"{pressure:.1f} PSI" (value in tenths), each with its colour.
TireIndicator(position, data) ==
    LET temp == data.temperature
        pressure == data.pressure
        temp_color == IF temp > Deg(100) THEN "#ff4444"
                      ELSE IF temp > Deg(85) THEN "#ffaa00" ELSE "#44ff44"
        pressure_color == IF pressure < Milli(2000) THEN "#ff4444"
                          ELSE IF pressure < Milli(2100) THEN "#ffaa00"
                          ELSE "#44ff44"
    IN  <<[prefix |-> position, value |-> None, suffix |-> "",
           color |-> "#ffffff"],
          [prefix |-> "", value |-> RoundTo(temp, Deg(1), 1), suffix |-> "C",
           color |-> temp_color],
          [prefix |-> "", value |-> RoundTo(pressure, Milli(1000), 10),
           suffix |-> " PSI", color |-> pressure_color]>>

\* for position in ['FL', 'FR', 'RL', 'RR']: tire_html += ...
create_tire_status_display(tire_data) ==
    TireIndicator(Positions[1], tire_data[Positions[1]])
    \o TireIndicator(Positions[2], tire_data[Positions[2]])
    \o TireIndicator(Positions[3], tire_data[Positions[3]])
    \o TireIndicator(Positions[4], tire_data[Positions[4]])

\* ------------------------------------------- the first call, at any age
\* The generator is constructed, left alone for any whole number of seconds
\* up to MaxElapsed, and then queried for the first time.
Elapse ==
    /\ now = start_time /\ snapshot = <<>>
    /\ \E elapsed \in 1..MaxElapsed : now' = now + elapsed
    /\ UNCHANGED <<start_time, lap_start_time, current_lap, best_lap_time,
                   previous_lap_time, throttle_position, brake_position,
                   snapshot, ind, laps, threshold, boundaries>>
    /\ UNCHANGED host

FirstCall == snapshot = <<>> /\ GetAllTelemetry

NextRamp == Elapse \/ FirstCall

SpecRamp == Init /\ [][NextRamp]_vars

\* ------------------------------------ sessions sharing the generator
\* Every session's script run (main) is a thread; the steps below are the
\* places at which one run can be overtaken by another: each generate_*
\* call of get_all_telemetry, and each read and write of a lap field inside
\* generate_lap_times.  The calls in flight read the same second from the
\* clock (it moves on between script runs), and draw as BaseDraw does, but
\* for the lap threshold.
At(s, label) == pc[s] = label
Goto(s, label) == pc' = [pc EXCEPT ![s] = label]
Local(s, locals) == frame' = [frame EXCEPT ![s] = locals @@ @]

\* Everything but the position and the locals of the script runs.
Outside ==
    <<now, start_time, lap_start_time, current_lap, best_lap_time,
      previous_lap_time, throttle_position, brake_position, snapshot, ind,
      laps, threshold, boundaries, cache, telemetry_gen, overlapped>>

\* main: if 'telemetry_gen' not in st.session_state, take the generator from
\* get_telemetry_generator(), which constructs it if no session has yet.
SessionState(s) ==
    /\ At(s, "idle")
    /\ Goto(s, "tires")
    /\ cache' = Generator
    /\ telemetry_gen' = [telemetry_gen EXCEPT ![s] = Generator]
    /\ IF cache = None
       THEN /\ start_time' = now
            /\ lap_start_time' = now
            /\ current_lap' = 1
            /\ best_lap_time' = None
            /\ previous_lap_time' = None
            /\ throttle_position' = E4(5)
            /\ brake_position' = 0
       ELSE UNCHANGED <<start_time, lap_start_time, current_lap, best_lap_time,
                        previous_lap_time, throttle_position, brake_position>>
    /\ UNCHANGED <<now, snapshot, ind, laps, threshold, boundaries, frame, overlapped>>

\* Session s has entered get_all_telemetry and not yet returned from it.
InFlight(s) == pc[s] \notin {"idle", "tires"}

\* 'tires': self.generate_tire_data()
Tires(s) ==
    /\ At(s, "tires")
    /\ Goto(s, "engine")
    /\ Local(s, [tires |-> generate_tire_data(now - start_time, throttle_position,
                                             brake_position, BaseDraw.tires)])
    /\ overlapped' = (overlapped \/ \E u \in Sessions \ {s} : InFlight(u))
    /\ UNCHANGED <<now, start_time, lap_start_time, current_lap, best_lap_time,
                   previous_lap_time, throttle_position, brake_position,
                   snapshot, ind, laps, threshold, boundaries, cache,
                   telemetry_gen>>

\* 'engine': self.generate_engine_data()
Engine(s) ==
    /\ At(s, "engine")
    /\ Goto(s, "thermal")
    /\ \E throttle \in {NextThrottle(now - start_time, BaseDraw.throttle)} :
        /\ throttle_position' = throttle
        /\ Local(s, [engine |-> generate_engine_data(throttle, BaseDraw.engine)])
    /\ UNCHANGED <<now, start_time, lap_start_time, current_lap, best_lap_time,
                   previous_lap_time, brake_position, snapshot, ind, laps,
                   threshold, boundaries, cache, telemetry_gen, overlapped>>

\* 'thermal': self.generate_thermal_data()
Thermal(s) ==
    /\ At(s, "thermal")
    /\ Goto(s, "power")
    /\ Local(s, [thermal |-> generate_thermal_data(now - start_time,
                                 throttle_position, BaseDraw.thermal)])
    /\ UNCHANGED Outside

\* 'power': self.generate_power_data()
Power(s) ==
    /\ At(s, "power")
    /\ Goto(s, "lap_times")
    /\ Local(s, [power |-> generate_power_data(now - start_time,
                               throttle_position, BaseDraw.power)])
    /\ UNCHANGED Outside

\* current_time = time.time()
\* current_lap_time = current_time - self.lap_start_time
LapRead(s) ==
    /\ At(s, "lap_times")
    /\ Goto(s, "if_completed")
    /\ Local(s, [current_time |-> now, current_lap_time |-> now - lap_start_time])
    /\ UNCHANGED Outside

\* if current_lap_time > random.uniform(90, 120):
LapTest(s) ==
    /\ At(s, "if_completed")
    /\ \E drawn \in LapThresholds :
        /\ threshold' = drawn
        /\ IF LapComplete(frame[s].current_lap_time, drawn)
           THEN Goto(s, "previous_lap_time")
           ELSE Goto(s, "return_lap_times")
    /\ UNCHANGED <<now, start_time, lap_start_time, current_lap, best_lap_time,
                   previous_lap_time, throttle_position, brake_position,
                   snapshot, ind, laps, boundaries, cache, telemetry_gen,
                   frame, overlapped>>

\* self.previous_lap_time = current_lap_time
LapPrevious(s) ==
    /\ At(s, "previous_lap_time")
    /\ Goto(s, "if_best")
    /\ previous_lap_time' = frame[s].current_lap_time
    /\ UNCHANGED <<now, start_time, lap_start_time, current_lap, best_lap_time,
                   throttle_position, brake_position, snapshot, ind, laps,
                   threshold, boundaries, cache, telemetry_gen, frame, overlapped>>

\* if self.best_lap_time is None or current_lap_time < self.best_lap_time:
LapBestTest(s) ==
    /\ At(s, "if_best")
    /\ IF best_lap_time = None \/ frame[s].current_lap_time < best_lap_time
       THEN Goto(s, "best_lap_time")
       ELSE Goto(s, "lap_start_time")
    /\ UNCHANGED Outside
    /\ UNCHANGED frame

\* self.best_lap_time = current_lap_time
LapBest(s) ==
    /\ At(s, "best_lap_time")
    /\ Goto(s, "lap_start_time")
    /\ best_lap_time' = frame[s].current_lap_time
    /\ UNCHANGED <<now, start_time, lap_start_time, current_lap,
                   previous_lap_time, throttle_position, brake_position,
                   snapshot, ind, laps, threshold, boundaries, cache,
                   telemetry_gen, frame, overlapped>>

\* Mutant of LapStart: the new lap's start is not stored.
LapStart_NoWrite(s) ==
    /\ At(s, "lap_start_time")
    /\ Goto(s, "load_current_lap")
    /\ UNCHANGED Outside
    /\ UNCHANGED frame

\* self.lap_start_time = current_time
LapStart(s) ==
    /\ At(s, "lap_start_time")
    /\ Goto(s, "load_current_lap")
    /\ lap_start_time' = frame[s].current_time
    /\ UNCHANGED <<now, start_time, current_lap, best_lap_time,
                   previous_lap_time, throttle_position, brake_position,
                   snapshot, ind, laps, threshold, boundaries, cache,
                   telemetry_gen, frame, overlapped>>

\* self.current_lap += 1, the read
LapLoad(s) ==
    /\ At(s, "load_current_lap")
    /\ Goto(s, "store_current_lap")
    /\ Local(s, [loaded |-> current_lap])
    /\ UNCHANGED Outside

\* self.current_lap += 1, the write
LapStore(s) ==
    /\ At(s, "store_current_lap")
    /\ Goto(s, "return_lap_times")
    /\ current_lap' = frame[s].loaded + 1
    /\ laps' = Append(laps, frame[s].current_lap_time)
    /\ boundaries' = Append(boundaries, frame[s].current_time)
    /\ UNCHANGED <<now, start_time, lap_start_time, best_lap_time,
                   previous_lap_time, throttle_position, brake_position,
                   snapshot, ind, threshold, cache, telemetry_gen, frame, overlapped>>

\* return {'current_lap_time': ..., 'current_lap': self.current_lap}
LapReturn(s) ==
    /\ At(s, "return_lap_times")
    /\ Goto(s, "status_indicators")
    /\ Local(s, [lap_times |->
                    [current_lap_time |-> frame[s].current_lap_time,
                     best_lap_time |-> best_lap_time,
                     previous_lap_time |-> previous_lap_time,
                     current_lap |-> current_lap]])
    /\ UNCHANGED Outside

\* 'status_indicators': self.generate_status_indicators()
Status(s) ==
    /\ At(s, "status_indicators")
    /\ Goto(s, "return")
    /\ \E status \in {generate_status_indicators(
                         generate_thermal_data(now - start_time,
                             throttle_position, BaseDraw.ind_thermal),
                         generate_tire_data(now - start_time, throttle_position,
                             brake_position, BaseDraw.ind_tires),
                         generate_power_data(now - start_time,
                             throttle_position, BaseDraw.ind_power))} :
        /\ ind' = <<status>>
        /\ Local(s, [status_indicators |-> status.returned])
    /\ UNCHANGED <<now, start_time, lap_start_time, current_lap, best_lap_time,
                   previous_lap_time, throttle_position, brake_position,
                   snapshot, laps, threshold, boundaries, cache, telemetry_gen,
                   overlapped>>

\* 'timestamp': datetime.now(); the dict goes to main and the run ends.
Return(s) ==
    /\ At(s, "return")
    /\ Goto(s, "idle")
    /\ snapshot' = <<[tires |-> frame[s].tires, engine |-> frame[s].engine,
                      thermal |-> frame[s].thermal, power |-> frame[s].power,
                      lap_times |-> frame[s].lap_times,
                      status_indicators |-> frame[s].status_indicators,
                      timestamp |-> now]>>
    /\ frame' = [frame EXCEPT ![s] = <<>>]
    /\ UNCHANGED <<now, start_time, lap_start_time, current_lap, best_lap_time,
                   previous_lap_time, throttle_position, brake_position, ind,
                   laps, threshold, boundaries, cache, telemetry_gen, overlapped>>

\* The clock moves on while no script run is in flight.
Pause ==
    /\ \A s \in Sessions : At(s, "idle")
    /\ now < MaxPauses * PauseStep
    /\ now' = now + PauseStep
    /\ UNCHANGED <<start_time, lap_start_time, current_lap, best_lap_time,
                   previous_lap_time, throttle_position, brake_position,
                   snapshot, ind, laps, threshold, boundaries>>
    /\ UNCHANGED host

\* One step of one session's script run.
Run(s) ==
    \/ SessionState(s) \/ Tires(s) \/ Engine(s) \/ Thermal(s) \/ Power(s)
    \/ LapRead(s) \/ LapTest(s) \/ LapPrevious(s) \/ LapBestTest(s)
    \/ LapBest(s) \/ LapStart(s) \/ LapLoad(s) \/ LapStore(s) \/ LapReturn(s)
    \/ Status(s) \/ Return(s)

NextShared == Pause \/ \E s \in Sessions : Run(s)

SpecShared == Init /\ [][NextShared]_vars

\* ======================================================== properties
Called == snapshot # <<>>
Snap == snapshot[1]

\* A step of get_all_telemetry (the clock stands still during a call).
CallStep == now' = now /\ vars' # vars

\* The call of this step completes a lap: its lap time exceeds its draw.
CompletionStep == CallStep /\ now - lap_start_time > threshold'

Range(s) == {s[i] : i \in 1..Len(s)}
MinOf(S) == CHOOSE x \in S : \A y \in S : x <= y

\* C1: best_lap_time is None while no lap has been completed, and otherwise
\* the least of the durations of all laps completed so far; the dict returned
\* by a call reports that value.
C1_BestIsMinimum ==
    /\ best_lap_time = (IF laps = <<>> THEN None ELSE MinOf(Range(laps)))
    /\ Called => Snap.lap_times.best_lap_time = best_lap_time

\* C1 witness: a second, slower lap was completed and the best stayed the
\* first lap's.
C1_Witness ==
    /\ Len(laps) >= 2 /\ laps[2] > laps[1]
    /\ best_lap_time = laps[1]

\* C2: current_lap is at least 1 and is 1 plus the number of laps completed;
\* a call that completes a lap raises it by exactly one and every other step
\* leaves it as it is.
C2_LapCounter ==
    /\ [](current_lap >= 1 /\ current_lap = 1 + Len(laps))
    /\ [][IF CompletionStep THEN current_lap' = current_lap + 1
          ELSE current_lap' = current_lap]_vars

\* C2 witness: two laps are completed and the counter stands at 3.
C2_Witness == Len(laps) = 2 /\ current_lap = 3

LastOf(s) == s[Len(s)]

\* C3: previous_lap_time is the duration of the lap completed last (None
\* before the first); a call that completes no lap leaves previous_lap_time,
\* best_lap_time, lap_start_time and current_lap as they are; no step changes
\* start_time.
C3_PreviousLapFrame ==
    /\ [](previous_lap_time = (IF laps = <<>> THEN None ELSE LastOf(laps)))
    /\ [][/\ start_time' = start_time
          /\ ~CompletionStep =>
                UNCHANGED <<previous_lap_time, best_lap_time, lap_start_time,
                            current_lap>>]_vars

\* C3 witness: a call that completed no lap was made during the second lap.
C3_Witness ==
    /\ laps # <<>> /\ Called
    /\ Snap.timestamp > lap_start_time
    /\ previous_lap_time = LastOf(laps)

Has(list, entry) == \E i \in 1..Len(list) : list[i] = entry

\* C4: the indicators of a snapshot follow from the thermal, tire and power
\* values of that same snapshot: each warning is present exactly when the
\* snapshot's value is past its threshold.
C4_IndicatorsFromSnapshot ==
    Called =>
        LET leds == Snap.status_indicators
        IN  /\ Has(leds, Yellow("Battery Temp Warning"))
                  <=> Snap.thermal.battery_temp > Deg(60)
            /\ Has(leds, Yellow("Motor Temp Warning"))
                  <=> Snap.thermal.motor_temp > Deg(90)
            /\ Has(leds, Red("Motor Overtemp"))
                  <=> Snap.thermal.motor_temp > Deg(100)
            /\ \A p \in Corners :
                  Has(leds, Red(Overheated[p]))
                      <=> Snap.tires[p].temperature > Deg(100)
            /\ Has(leds, Yellow("Low Battery")) <=> Snap.power.soc < Pct(20)
            /\ Has(leds, Red("Critical Battery")) <=> Snap.power.soc < Pct(10)

Colors == {"green", "yellow", "red"}

\* C5: whatever thresholds are breached, the list returned has exactly 20
\* entries and every entry's colour is green, yellow or red.
C5_TwentyIndicators ==
    ind # <<>> =>
        /\ Len(ind[1].returned) = 20
        /\ \A i \in 1..Len(ind[1].returned) : ind[1].returned[i].color \in Colors

\* C5 witness: every threshold is breached at once (14 warnings, 6 fillers).
C5_Witness ==
    /\ ind # <<>>
    /\ ind[1].thermal_data.battery_temp > Deg(70)
    /\ ind[1].thermal_data.motor_temp > Deg(100)
    /\ \A p \in Corners : /\ ind[1].tire_data[p].pressure < Milli(2000)
                          /\ ind[1].tire_data[p].temperature > Deg(100)
    /\ ind[1].power_data.soc < Pct(10)
    /\ ind[1].returned[14].color = "red"
    /\ ind[1].returned[15].color = "green"

\* The place of a status text in the generation order: battery, motor, the
\* tires FL, FR, RL, RR, power, and last the filler.
Rank(status) ==
    CASE status \in {"Battery Temp Warning", "Battery Overtemp"} -> 1
      [] status \in {"Motor Temp Warning", "Motor Overtemp"} -> 2
      [] status \in {"FL Low Pressure", "FL Overheated"} -> 3
      [] status \in {"FR Low Pressure", "FR Overheated"} -> 4
      [] status \in {"RL Low Pressure", "RL Overheated"} -> 5
      [] status \in {"RR Low Pressure", "RR Overheated"} -> 6
      [] status \in {"Low Battery", "Critical Battery"} -> 7
      [] status = "System OK" -> 8
      [] OTHER -> 0

\* C6: in the list returned, every yellow or red entry comes before every
\* green System OK entry, the warnings stand in the order battery, motor,
\* FL, FR, RL, RR, power, and when the battery temperature read for the
\* indicators is above 70 a red Battery Overtemp entry stands before any
\* System OK entry.
C6_WarningsFirst ==
    ind # <<>> =>
        LET leds == ind[1].returned
        IN  /\ \A i, j \in 1..Len(leds) :
                  i < j =>
                      /\ leds[i] = SystemOK => leds[j] = SystemOK
                      /\ Rank(leds[i].status) <= Rank(leds[j].status)
            /\ \A i \in 1..Len(leds) :
                  /\ Rank(leds[i].status) >= 1
                  /\ leds[i].color = "green" <=> leds[i] = SystemOK
            /\ ind[1].thermal_data.battery_temp > Deg(70) =>
                  \E i \in 1..Len(leds) :
                      /\ leds[i] = Red("Battery Overtemp")
                      /\ \A j \in 1..i : leds[j] # SystemOK

\* C6 witness: the battery is above 70, a tire and the power group also
\* warn, and fillers follow.
C6_Witness ==
    /\ ind # <<>>
    /\ ind[1].thermal_data.battery_temp > Deg(70)
    /\ Has(ind[1].returned, Red("Battery Overtemp"))
    /\ Has(ind[1].returned, Red("RL Overheated"))
    /\ Has(ind[1].returned, Yellow("Low Battery"))
    /\ ind[1].returned[20] = SystemOK

\* C7: soc never rises from one call to the next: the soc reported by a call
\* is at most the soc reported by the call before it.
C7_SocNonIncreasing ==
    [][Called /\ CallStep => snapshot'[1].power.soc <= Snap.power.soc]_vars

Between(lo, x, hi) == lo <= x /\ x <= hi

\* C8: every physical quantity of every snapshot lies inside its bounds:
\* tire temperatures in [20,120] and pressures in [1.8,2.8], rpm in
\* [1000,12000], speed in [0,250], throttle_position in [0.2,1.0],
\* battery_temp in [20,80], motor_temp in [25,110], soc in [5,85], and
\* power_kw at most 0.
C8_WithinBounds ==
    Called =>
        /\ \A p \in Corners :
              /\ Between(Deg(20), Snap.tires[p].temperature, Deg(120))
              /\ Between(Milli(1800), Snap.tires[p].pressure, Milli(2800))
        /\ Between(1000, Snap.engine.rpm, 12000)
        /\ Between(0, Snap.engine.speed, 250)
        /\ Between(E4(2), Snap.engine.throttle_position, E4(10))
        /\ Between(Deg(20), Snap.thermal.battery_temp, Deg(80))
        /\ Between(Deg(25), Snap.thermal.motor_temp, Deg(110))
        /\ Between(Pct(5), Snap.power.soc, Pct(85))
        /\ Snap.power.power_kw <= 0

\* C8 witness: a snapshot whose soc sits on its floor of 5 although the
\* consumption formula gives less.
C8_Witness ==
    /\ Called
    /\ Snap.power.soc = Pct(5)
    /\ Pct(85) - (Snap.timestamp - start_time)
           * (8 * Snap.engine.throttle_position + 20000) < Pct(5)

MinWithNone(best, t) == IF best = None \/ t < best THEN t ELSE best

\* C9: a call completes a lap exactly when its lap time, now minus
\* lap_start_time, exceeds the threshold drawn for the call: never when the
\* lap time is at most 90, always when it is above 120; every completed lap
\* lasted more than 90 s; on completion previous_lap_time becomes the lap
\* time, best_lap_time the lesser of the old best (if any) and the lap time,
\* lap_start_time becomes now and current_lap grows by 1.
C9_LapCompletion ==
    /\ [](\A i \in 1..Len(laps) : laps[i] > 90)
    /\ [][CallStep =>
            LET t == now - lap_start_time
            IN  /\ t <= 90 => current_lap' = current_lap /\ laps' = laps
                /\ t > 120 => current_lap' = current_lap + 1
                /\ IF t > threshold'
                   THEN /\ previous_lap_time' = t
                        /\ best_lap_time' = MinWithNone(best_lap_time, t)
                        /\ lap_start_time' = now
                        /\ current_lap' = current_lap + 1
                        /\ laps' = Append(laps, t)
                   ELSE UNCHANGED <<previous_lap_time, best_lap_time,
                                    lap_start_time, current_lap, laps>>]_vars

\* C9 witness: a lap time between the two ends of the draw was completed
\* because the draw was below it.
C9_Witness ==
    /\ laps # <<>> /\ Called
    /\ lap_start_time = Snap.timestamp
    /\ threshold < previous_lap_time /\ previous_lap_time <= 120
    /\ previous_lap_time = LastOf(laps)

\* C10: the first call on a fresh generator, made before any lap time can
\* have passed (in particular at once), returns current_lap = 1,
\* best_lap_time = None, previous_lap_time = None and a current_lap_time
\* equal to the time since construction, and completes no lap.
C10_FreshGenerator ==
    [][snapshot = <<>> /\ CallStep /\ now - start_time <= 90 =>
          /\ snapshot'[1].lap_times =
                [current_lap_time |-> now - start_time, best_lap_time |-> None,
                 previous_lap_time |-> None, current_lap |-> 1]
          /\ UNCHANGED <<previous_lap_time, best_lap_time, lap_start_time,
                         current_lap, laps>>]_vars

\* C10 witness: the generator was queried in the second of its construction.
C10_Witness ==
    /\ Called
    /\ Snap.timestamp = start_time
    /\ Snap.lap_times.current_lap_time = 0
    /\ Snap.lap_times.current_lap = 1

\* C11: the ramps cap: wear_factor = min(elapsed/3600, 0.3) and
\* thermal_buildup = min(elapsed/1800, 0.4) do not decrease from one second
\* of elapsed time to the next, never exceed 0.3 and 0.4, equal elapsed/3600
\* and elapsed/1800 below the caps and exactly 0.3 from 1080 s on and 0.4 from
\* 720 s on; the snapshot's tire pressures and battery temperature are the
\* base values moved by exactly these ramps and by their draws.
C11_RampsCap ==
    Called =>
        LET elapsed == Snap.timestamp - start_time
            throttle == Snap.engine.throttle_position
        IN  /\ wear_factor(elapsed) <= 1080
            /\ thermal_buildup(elapsed) <= 720
            /\ elapsed >= 1 =>
                  /\ wear_factor(elapsed - 1) <= wear_factor(elapsed)
                  /\ thermal_buildup(elapsed - 1) <= thermal_buildup(elapsed)
            /\ wear_factor(elapsed) = (IF elapsed >= 1080 THEN 1080 ELSE elapsed)
            /\ thermal_buildup(elapsed) = (IF elapsed >= 720 THEN 720 ELSE elapsed)
            /\ \A p \in Corners :
                  Between(Lo(PressureVariation(p)),
                          Snap.tires[p].pressure - base_tire_pressure
                              + wear_factor(elapsed),
                          Hi(PressureVariation(p)))
            /\ Between(Lo(BatteryNoise),
                       Snap.thermal.battery_temp - Deg(base_battery_temp)
                           - throttle * 90 - thermal_buildup(elapsed) * 2500,
                       Hi(BatteryNoise))

\* C11 witness: a first call two hours after construction, both ramps at
\* their caps: FL pressure 2.3 - 0.1 - 0.3 * 0.2 = 2.14.
C11_Witness ==
    /\ Called
    /\ Snap.timestamp - start_time = 7200
    /\ Snap.tires["FL"].pressure = Milli(2140)
    /\ Snap.thermal.battery_temp
          = Deg(45 + 10 - 2) + 90 * Snap.engine.throttle_position

\* The lap state and throttle of the generator object a session holds.
Held(g) ==
    IF g = Generator
    THEN <<lap_start_time, current_lap, best_lap_time, previous_lap_time,
           throttle_position>>
    ELSE <<>>

\* C12: every session has a generator of its own: a step of one session's
\* get_all_telemetry call leaves the lap state (lap_start_time, current_lap,
\* best_lap_time, previous_lap_time) and the throttle_position of the
\* generator any other session holds as they are.
C12_SessionsApart ==
    [][\A s, t \in Sessions :
          (s # t /\ pc[s] # "idle" /\ pc'[s] # pc[s] /\ telemetry_gen[t] # None)
              => Held(telemetry_gen[t])' = Held(telemetry_gen[t])]_vars

\* The text nodes of a display that start with the given text.
Showing(display, text) == {i \in 1..Len(display) : display[i].prefix = text}

\* C13: the tire display of a snapshot shows each of the four corner labels
\* FL, FR, RL and RR, each followed within its block by a 'Wear:' reading:
\* four wear readings in all.
C13_TireWearShown ==
    Called =>
        LET display == create_tire_status_display(Snap.tires)
        IN  /\ \A p \in Corners :
                  \E i \in Showing(display, p) :
                      \E j \in Showing(display, "Wear:") : i < j /\ j <= i + 3
            /\ Cardinality(Showing(display, "Wear:")) = 4

\* C14: as long as no two get_all_telemetry calls on the shared generator
\* have been in flight at once (every call ran as a critical section),
\* current_lap is 1 plus the number of its increments, the first increment
\* comes more than 90 s after construction and any two successive
\* increments are more than 90 s apart; a lap boundary counted twice (the
\* witness) therefore needs two overlapping calls.
C14_TornLapNeedsOverlap ==
    ~overlapped =>
        /\ current_lap = 1 + Len(boundaries)
        /\ Len(laps) = Len(boundaries)
        /\ boundaries # <<>> => boundaries[1] - start_time > 90
        /\ \A i \in 1..(Len(boundaries) - 1) :
              boundaries[i + 1] - boundaries[i] > 90

\* C14 witness: two overlapping calls both saw the same lap time cross the
\* threshold: one lap boundary, current_lap incremented twice, and the lap
\* recorded twice.
C14_Witness ==
    /\ overlapped
    /\ \A s \in Sessions : At(s, "idle")
    /\ Len(boundaries) = 2 /\ boundaries[1] = boundaries[2]
    /\ laps[1] = laps[2]
    /\ current_lap = 3
    /\ lap_start_time = boundaries[1]

\* C15: no list of indicators holds a red Battery Overtemp or a Low
\* Pressure entry of any corner, because every battery temperature the
\* generator produces (for the snapshot or for the indicators) is at most
\* 45 + 0.4*25 + 0.5*1.0*10 + 3 = 63 and every tire pressure at least
\* 2.3 - 0.1 - 0.3*0.2 = 2.14.
C15_NeverOvertempNorLowPressure ==
    /\ Called =>
          /\ Snap.thermal.battery_temp <= Deg(63)
          /\ \A p \in Corners : Snap.tires[p].pressure >= Milli(2140)
          /\ ~Has(Snap.status_indicators, Red("Battery Overtemp"))
          /\ \A p \in Corners :
                ~Has(Snap.status_indicators, Yellow(LowPressure[p]))
    /\ ind # <<>> =>
          /\ ind[1].thermal_data.battery_temp <= Deg(63)
          /\ \A p \in Corners : ind[1].tire_data[p].pressure >= Milli(2140)
          /\ ~Has(ind[1].indicators, Red("Battery Overtemp"))
          /\ \A p \in Corners : ~Has(ind[1].indicators, Yellow(LowPressure[p]))

\* C15 witness: past both caps, at full throttle and with the highest
\* noise, the battery temperature read for the indicators is exactly 63:
\* the yellow warning is shown, the red one is not.
C15_Witness ==
    /\ Called /\ ind # <<>>
    /\ Snap.timestamp - start_time >= 1080
    /\ Snap.engine.throttle_position = E4(10)
    /\ ind[1].thermal_data.battery_temp = Deg(63)
    /\ Has(Snap.status_indicators, Yellow("Battery Temp Warning"))
    /\ ~Has(Snap.status_indicators, Red("Battery Overtemp"))

\* The places of a list whose entry's rank lies in the given set.
Ranked(list, ranks) == {i \in 1..Len(list) : Rank(list[i].status) \in ranks}

\* C16: before the final truncation the list holds at most 14 warnings (at
\* most 4 thermal, 8 tire and 2 power ones), so indicators[:20] removes
\* nothing, no warning is lost, and the last 6 entries returned are green
\* System OK.
C16_AtMostFourteenWarnings ==
    ind # <<>> =>
        LET indicators == ind[1].indicators
            returned == ind[1].returned
        IN  /\ Cardinality(Ranked(indicators, {1, 2})) <= 4
            /\ Cardinality(Ranked(indicators, {3, 4, 5, 6})) <= 8
            /\ Cardinality(Ranked(indicators, {7})) <= 2
            /\ Cardinality(Ranked(indicators, 1..7)) <= 14
            /\ Ranked(indicators, {0}) = {}
            /\ returned = indicators
            /\ \A i \in 15..20 : returned[i] = SystemOK

\* C16 witness: all 14 thresholds are breached: the list returned holds 14
\* warnings, the last of them Critical Battery, and then 6 fillers.
C16_Witness ==
    /\ ind # <<>>
    /\ Cardinality(Ranked(ind[1].returned, 1..7)) = 14
    /\ ind[1].returned[14] = Red("Critical Battery")
    /\ \A i \in 15..20 : ind[1].returned[i] = SystemOK

\* C17: every call reports as current_lap_time the time since the lap start
\* it found, not the one it leaves: the call that completes a lap reports
\* the incremented current_lap together with a current_lap_time equal to
\* the previous_lap_time it reports (the lap just completed, more than
\* 90 s), and the call after it reports the time since the new
\* lap_start_time.
C17_CompletingCallReport ==
    [][CallStep =>
          LET reported == snapshot'[1].lap_times
          IN  /\ reported.current_lap_time = now - lap_start_time
              /\ CompletionStep =>
                    /\ reported.current_lap = current_lap + 1
                    /\ reported.current_lap_time = reported.previous_lap_time
                    /\ reported.current_lap_time > 90
                    /\ lap_start_time' = now
                    /\ now - lap_start_time' = 0]_vars

\* C17 witness: the snapshot of a call that has just completed lap 1.
C17_Witness ==
    /\ Called
    /\ lap_start_time = Snap.timestamp
    /\ Snap.lap_times.current_lap = 2
    /\ Snap.lap_times.current_lap_time = Snap.lap_times.previous_lap_time
    /\ Snap.lap_times.current_lap_time > 90

\* What a tire's temperature is above the base and the wear term: the
\* corner's temp_variation alone, or with the throttle heat bonus on top.
Plain(p) == TempVariation(p)
Heated(p) == {v + h : v \in TempVariation(p), h \in ThrottleHeat}

\* C18: the tires of a snapshot get the throttle heat bonus exactly when the
\* throttle reported by the snapshot before it (0.5 for the first call, so
\* never on the first call) is above 0.7, whatever throttle the snapshot
\* itself reports; its thermal and power groups use the throttle it reports;
\* brake_position stays 0.0, so no tire gets the brake heat bonus.
C18_TiresUsePreviousThrottle ==
    [][CallStep =>
          LET after == snapshot'[1]
              elapsed == now - start_time
              before == IF Called THEN Snap.engine.throttle_position ELSE E4(5)
              reported == after.engine.throttle_position
          IN  /\ throttle_position = before
              /\ throttle_position' = reported
              /\ brake_position = 0 /\ brake_position' = 0
              /\ \A p \in Corners :
                    after.tires[p].temperature - Deg(base_tire_temp)
                        - wear_factor(elapsed) * 1000
                      \in (IF before > E4(7) THEN Heated(p) ELSE Plain(p))
              /\ after.thermal.battery_temp - Deg(base_battery_temp)
                     - thermal_buildup(elapsed) * 2500 - reported * 90
                   \in BatteryNoise
              /\ after.thermal.motor_temp - Deg(base_motor_temp)
                     - thermal_buildup(elapsed) * 3500 - reported * 189
                   \in MotorNoise
              /\ after.power.soc = CurrentSoc(elapsed, reported)
              /\ -after.power.power_kw - reported * 45 \in PowerNoise]_vars

\* C18 witness: a snapshot reporting a throttle of at most 0.7 whose tires
\* carry the bonus earned by the throttle of the snapshot before it.
C18_Witness ==
    /\ Called
    /\ Snap.engine.throttle_position <= E4(7)
    /\ Snap.tires["FL"].temperature - Deg(base_tire_temp)
           - wear_factor(Snap.timestamp - start_time) * 1000 \in Heated("FL")

====
